---------------------------- MODULE Spec2Model ----------------------------
(***************************************************************************)
(* A model of tinycbor's CBOR-to-JSON converter (src/cbortojson.c).        *)
(*                                                                         *)
(* Text is a sequence of one-character strings.  64-bit quantities are     *)
(* sequences of bits, most significant first and without leading zeros     *)
(* (the empty sequence is 0), so that the full range of uint64_t, of       *)
(* int64_t and of the integers a double holds exactly is computed with.    *)
(***************************************************************************)
EXTENDS Integers, Sequences, FiniteSets, TLC

VARIABLES
    \* integer rendering (value_to_json's and stringify_map_key's integer cases)
    mag, neg, ipc, valText, keyText,
    \* generic_dump_base64: the byte string, n, len, the buffer and what was
    \* observed of its use, the in and out pointers (offsets into the buffer)
    bytes, bn, blen, mem, inp, outp, bpc,
    \* cbor_value_to_json_advance: the encoded items the cursor walks, the flags,
    \* the injected failure, the caller's cursor, the sink and the log of what
    \* the conversion did, the returned error
    stream, flags, fault, cursor, world, err, pc

vars == <<mag, neg, ipc, valText, keyText, bytes, bn, blen, mem, inp, outp, bpc,
          stream, flags, fault, cursor, world, err, pc>>

ivars == <<mag, neg, ipc, valText, keyText>>

bvars == <<bytes, bn, blen, mem, inp, outp, bpc>>

cvars == <<stream, flags, fault, cursor, world, err, pc>>

\* the parts of the state a specification leaves alone
ConvIdle ==
    /\ stream = <<>> /\ flags = {} /\ fault = <<>> /\ cursor = <<>> /\ world = <<>>
    /\ err = "" /\ pc = "idle"

IntIdle ==
    /\ mag = <<>> /\ neg = FALSE /\ ipc = "idle" /\ valText = <<>> /\ keyText = <<>>

B64Idle ==
    /\ bytes = <<>> /\ bn = 0 /\ blen = 0 /\ mem = <<>> /\ inp = 0 /\ outp = 0
    /\ bpc = "idle"

-----------------------------------------------------------------------------
(* Sequences and bit strings *)

\* uint64_t, int64_t
W64 == 64

\* the bits of a double's significand (DBL_MANT_DIG)
MantBits == 53

Front(s) == SubSeq(s, 1, Len(s) - 1)

Zeros(k) == [i \in 1..k |-> 0]

Ones(k) == [i \in 1..k |-> 1]

\* s without its leading zeros
StripZeros(s) ==
    IF \A i \in 1..Len(s) : s[i] = 0 THEN <<>>
    ELSE LET k == CHOOSE i \in 1..Len(s) : s[i] # 0 /\ \A j \in 1..(i - 1) : s[j] = 0
         IN  SubSeq(s, k, Len(s))

Norm(b) == StripZeros(b)

\* b + 1: the trailing ones become zeros and the zero before them a one
Inc(b) ==
    IF \A i \in 1..Len(b) : b[i] = 1 THEN <<1>> \o Zeros(Len(b))
    ELSE LET k == CHOOSE i \in 1..Len(b) : b[i] = 0 /\ \A j \in (i + 1)..Len(b) : b[j] = 1
         IN  SubSeq(b, 1, k - 1) \o <<1>> \o Zeros(Len(b) - k)

Pow2(k) == <<1>> \o Zeros(k)

RECURSIVE BitsOf(_)
BitsOf(k) == IF k = 0 THEN <<>> ELSE Append(BitsOf(k \div 2), k % 2)

\* the 64-bit word holding b (b < 2^64)
Pad64(b) == Zeros(W64 - Len(b)) \o b

\* reduction modulo 2^64, as unsigned arithmetic does
Wrap64(b) == Norm(IF Len(b) > W64 THEN SubSeq(b, Len(b) - W64 + 1, Len(b)) ELSE b)

\* ~x on a 64-bit word; in two's complement -x - 1 = ~x
Not64(b) == Norm([i \in 1..W64 |-> 1 - Pad64(b)[i]])

\* the sign bit of a 64-bit word read as int64_t
SignBit64(b) == Len(b) = W64

-----------------------------------------------------------------------------
(* Decimal text *)

DigitChar == <<"0", "1", "2", "3", "4", "5", "6", "7", "8", "9">>

DigitVal(c) == CHOOSE d \in 0..9 : DigitChar[d + 1] = c

IsDigit(c) == \E d \in 0..9 : DigitChar[d + 1] = c

\* the bytes of b, most significant first
BytesOf(b) ==
    LET k == (Len(b) + 7) \div 8
        p == Zeros(8 * k - Len(b)) \o b
    IN  [i \in 1..k |-> 128 * p[8*i - 7] + 64 * p[8*i - 6] + 32 * p[8*i - 5] + 16 * p[8*i - 4]
                         + 8 * p[8*i - 3] + 4 * p[8*i - 2] + 2 * p[8*i - 1] + p[8*i]]

\* 256*l + carry on a number held as limbs of four decimal digits
RECURSIVE MulAdd(_, _)
MulAdd(l, carry) ==
    IF l = <<>> THEN (IF carry = 0 THEN <<>> ELSE <<carry>>)
    ELSE LET x == 256 * l[Len(l)] + carry
         IN  Append(MulAdd(Front(l), x \div 10000), x % 10000)

RECURSIVE DecLimbs(_)
DecLimbs(bs) ==
    IF bs = <<>> THEN <<>> ELSE MulAdd(DecLimbs(Front(bs)), bs[Len(bs)])

\* the decimal digits of b, most significant first; none for 0
DecDigits(b) ==
    LET l == DecLimbs(BytesOf(b))
    IN  StripZeros([i \in 1..(4 * Len(l)) |->
            LET x == l[(i + 3) \div 4]
            IN  CASE i % 4 = 1 -> x \div 1000
                  [] i % 4 = 2 -> (x \div 100) % 10
                  [] i % 4 = 3 -> (x \div 10) % 10
                  [] OTHER     -> x % 10])

\* what printf's %PRIu64 (and %.0f of a non-negative whole double) writes
FmtU64(b) ==
    LET d == DecDigits(b)
    IN  IF d = <<>> THEN <<"0">> ELSE [i \in 1..Len(d) |-> DigitChar[d[i] + 1]]

\* a JSON parser's reading of an integer literal: the sign, and the magnitude
\* as the sequence of its decimal digits without leading zeros
ParseDigits(t) == StripZeros([i \in 1..Len(t) |-> DigitVal(t[i])])

ParseNumber(t) ==
    IF t # <<>> /\ Head(t) = "-"
    THEN [sign |-> TRUE, d |-> ParseDigits(Tail(t))]
    ELSE [sign |-> FALSE, d |-> ParseDigits(t)]

-----------------------------------------------------------------------------
(* Doubles holding whole numbers: a sign and a magnitude of at most        *)
(* MantBits significant bits                                               *)

\* conversion to double, round to nearest, ties to even
RoundToDouble(b) ==
    IF Len(b) <= MantBits THEN b
    ELSE LET hi     == SubSeq(b, 1, MantBits)
             rest   == SubSeq(b, MantBits + 1, Len(b))
             sticky == \E i \in 2..Len(rest) : rest[i] = 1
             up     == rest[1] = 1 /\ (sticky \/ hi[MantBits] = 1)
         IN  (IF up THEN Inc(hi) ELSE hi) \o Zeros(Len(rest))

\* num = val, for a uint64_t val
U64ToDouble(b) == [sign |-> FALSE, m |-> RoundToDouble(b)]

\* num = -num: the subtraction of 1 left out
NegOnly(num) == [sign |-> TRUE, m |-> num.m]

\* -num - 1, for num >= 0: the exact result -(num + 1), rounded
NegMinusOne(num) == [sign |-> TRUE, m |-> RoundToDouble(Inc(num.m))]

\* printf's %.0f of a whole double: its exact decimal expansion
FmtF0(num) == (IF num.sign THEN <<"-">> ELSE <<>>) \o FmtU64(num.m)

\* value_to_json, case CborIntegerType: the text written for raw magnitude m
RenderInteger(m, negative) ==
    LET num == U64ToDouble(m)
    IN  FmtF0(IF negative THEN NegMinusOne(num) ELSE num)

\* cbor_value_get_int64: (int64_t)raw, then -result - 1 for a negative integer.
\* The word it leaves in *result; -result overflows for raw = 2^63, where a
\* wrapping build leaves ~raw and a trapping build aborts.
GetInt64Wrap(m) == Not64(m)

GetInt64(m) ==
    {GetInt64Wrap(m)} \cup (IF m = Pow2(W64 - 1) THEN {<<"trap">>} ELSE {})

\* printf's %PRIi64 of a negative int64_t word
FmtI64Neg(v) == <<"-">> \o FmtU64(Inc(Not64(v)))

\* stringify_map_key, case CborIntegerType; val is what cbor_value_get_int64 left
StringifyInteger(m, negative, val) ==
    IF ~negative THEN FmtU64(m)
    ELSE IF SignBit64(val) THEN FmtI64Neg(val)
    ELSE <<"-">> \o FmtU64(Not64(val))

\* the integer a CBOR head denotes: magnitude when non-negative, -magnitude-1 otherwise
IntMagnitude(m, negative) == IF negative THEN Inc(m) ELSE m

\* that integer as a number: its sign and decimal digits
IntValue(m, negative) == [sign |-> negative, d |-> DecDigits(IntMagnitude(m, negative))]

-----------------------------------------------------------------------------
(* Base64: generic_dump_base64 with dump_bytestring_base64url's alphabet *)

\* the 64 characters of the alphabet; its 65th, the filler, is the literal's NUL
Alphabet ==
    << "A", "B", "C", "D", "E", "F", "G", "H", "I", "J", "K", "L", "M", "N", "O", "P",
       "Q", "R", "S", "T", "U", "V", "W", "X", "Y", "Z", "a", "b", "c", "d", "e", "f",
       "g", "h", "i", "j", "k", "l", "m", "n", "o", "p", "q", "r", "s", "t", "u", "v",
       "w", "x", "y", "z", "0", "1", "2", "3", "4", "5", "6", "7", "8", "9", "-", "_" >>

\* the ASCII code of alphabet[i], 0 <= i <= 64
AlphabetCode(i) ==
    CASE i < 26 -> 65 + i
      [] i < 52 -> 97 + (i - 26)
      [] i < 62 -> 48 + (i - 52)
      [] i = 62 -> 45
      [] i = 63 -> 95
      [] OTHER  -> 0

\* the character a byte of the result shows as
CharOfCode(c) ==
    IF \E i \in 0..63 : AlphabetCode(i) = c
    THEN Alphabet[(CHOOSE i \in 0..63 : AlphabetCode(i) = c) + 1]
    ELSE "?"

\* a cell malloc returned and nothing wrote
Uninit == -1

\* The buffer is cells 0..len.  Besides the cells, mem records the input cells
\* not read yet and what went wrong: an access outside the buffer, a write
\* onto an input cell not read yet, a read of a cell never written.
NewMem(len) == [buf |-> [i \in 1..(len + 1) |-> Uninit], unread |-> {}, faults |-> {}]

InBuf(m, p) == p >= 0 /\ p < Len(m.buf)

Write(m, p, v) ==
    IF ~InBuf(m, p) THEN [m EXCEPT !.faults = @ \cup {"out of bounds"}]
    ELSE [m EXCEPT !.buf[p + 1] = v,
                   !.faults = IF p \in m.unread THEN @ \cup {"overwrote unread input"} ELSE @]

\* the value a read of cell p yields
Peek(m, p) == IF InBuf(m, p) /\ m.buf[p + 1] # Uninit THEN m.buf[p + 1] ELSE 0

Read(m, p) ==
    [m EXCEPT !.unread = @ \ {p},
              !.faults = IF ~InBuf(m, p) THEN @ \cup {"out of bounds"}
                         ELSE IF m.buf[p + 1] = Uninit THEN @ \cup {"uninitialized read"}
                         ELSE @]

\* a buffer of just the output's length: (n + 2) / 3 * 4
B64LenExact(n) == ((n + 2) \div 3) * 4

\* size_t len = (n + 5) / 3 * 4
B64Len(n) == ((n + 5) \div 3) * 4

\* cbor_value_copy_byte_string(it, in, &n, it) with *buflen = n + 1: the string's
\* n bytes go to in[0..n-1], the spare byte takes a NUL, *buflen becomes n
RECURSIVE CopyByteString(_, _, _)
CopyByteString(m, p, str) ==
    IF str = <<>> THEN Write(m, p, 0)
    ELSE CopyByteString(Write(m, p, Head(str)), p + 1, Tail(str))

\* one round of the loop: three bytes read, four characters written
B64Round(m, in, out) ==
    LET val == Peek(m, in) * 65536 + Peek(m, in + 1) * 256 + Peek(m, in + 2)
        m0  == Read(Read(Read(m, in), in + 1), in + 2)
        m1  == Write(m0, out, AlphabetCode((val \div 262144) % 64))
        m2  == Write(m1, out + 1, AlphabetCode((val \div 4096) % 64))
        m3  == Write(m2, out + 2, AlphabetCode((val \div 64) % 64))
    IN  Write(m3, out + 3, AlphabetCode(val % 64))

\* the tail without its second byte: val |= (in[1] << 8) left out
B64TailOneByte(m, in, out, n) ==
    IF n # 0
    THEN LET val == Peek(m, in) * 65536
             m0  == Read(m, in)
             m1  == Write(m0, out + 4, 0)
             m2  == Write(m1, out + 3, AlphabetCode(64))
             m3  == IF n = 2
                    THEN Write(Read(m2, in + 1), out + 2, AlphabetCode((val \div 64) % 64))
                    ELSE Write(m2, out + 2, AlphabetCode(64))
             m4  == Write(m3, out + 1, AlphabetCode((val \div 4096) % 64))
         IN  Write(m4, out, AlphabetCode((val \div 262144) % 64))
    ELSE Write(m, out, 0)

\* after the loop: one or two bytes left, or none
B64Tail(m, in, out, n) ==
    IF n # 0
    THEN LET v0  == Peek(m, in) * 65536
             m0  == Read(m, in)
             m1  == Write(m0, out + 4, 0)
             m2  == Write(m1, out + 3, AlphabetCode(64))
             val == IF n = 2 THEN v0 + Peek(m2, in + 1) * 256 ELSE v0
             m3  == IF n = 2
                    THEN Write(Read(m2, in + 1), out + 2, AlphabetCode((val \div 64) % 64))
                    ELSE Write(m2, out + 2, AlphabetCode(64))
             m4  == Write(m3, out + 1, AlphabetCode((val \div 4096) % 64))
         IN  Write(m4, out, AlphabetCode((val \div 262144) % 64))
    ELSE Write(m, out, 0)

\* the C string at the start of the buffer: the characters before the first NUL
CString(buf) ==
    LET k == IF \E i \in 1..Len(buf) : buf[i] = 0
             THEN (CHOOSE i \in 1..Len(buf) : buf[i] = 0 /\ \A j \in 1..(i - 1) : buf[j] # 0) - 1
             ELSE Len(buf)
    IN  [i \in 1..k |-> CharOfCode(buf[i])]

MaxBytes == 5

ByteVals == {0, 16, 131, 255}

ByteStrings == UNION {[1..k -> ByteVals] : k \in 0..MaxBytes}

B64Init ==
    /\ IntIdle
    /\ ConvIdle
    /\ bytes \in ByteStrings
    /\ bn = 0 /\ blen = 0 /\ mem = <<>> /\ inp = 0 /\ outp = 0
    /\ bpc = "start"

\* lines 42-55: the length, the buffer, the place of the input at its tail
B64Alloc ==
    /\ bpc = "start"
    /\ bn' = Len(bytes)
    /\ blen' = B64Len(Len(bytes))
    /\ mem' = NewMem(B64Len(Len(bytes)))
    /\ outp' = 0
    /\ inp' = B64Len(Len(bytes)) - Len(bytes)
    /\ bpc' = "copy"
    /\ UNCHANGED <<bytes>>
    /\ UNCHANGED ivars
    /\ UNCHANGED cvars

\* lines 57-60
B64Copy ==
    /\ bpc = "copy"
    /\ mem' = [CopyByteString(mem, inp, bytes) EXCEPT !.unread = inp..(inp + bn - 1)]
    /\ bpc' = "loop"
    /\ UNCHANGED <<bytes, bn, blen, inp, outp>>
    /\ UNCHANGED ivars
    /\ UNCHANGED cvars

\* lines 63-72
B64Loop ==
    /\ bpc = "loop"
    /\ bn >= 3
    /\ mem' = B64Round(mem, inp, outp)
    /\ bn' = bn - 3
    /\ inp' = inp + 3
    /\ outp' = outp + 4
    /\ UNCHANGED <<bytes, blen, bpc>>
    /\ UNCHANGED ivars
    /\ UNCHANGED cvars

\* lines 74-96
B64Finish ==
    /\ bpc = "loop"
    /\ bn < 3
    /\ mem' = B64Tail(mem, inp, outp, bn)
    /\ bpc' = "done"
    /\ UNCHANGED <<bytes, bn, blen, inp, outp>>
    /\ UNCHANGED ivars
    /\ UNCHANGED cvars

B64Next == B64Alloc \/ B64Copy \/ B64Loop \/ B64Finish

SpecB64 == B64Init /\ [][B64Next]_vars

\* Base64 as RFC 4648 defines it: the bytes' bits in a row, cut into groups of
\* six (the last filled up with zeros), each group a character of the alphabet,
\* and the filler up to a multiple of four characters
BitOfBytes(str, i) ==
    IF i > 8 * Len(str) THEN 0
    ELSE LET v == str[(i + 7) \div 8]
             k == (i - 1) % 8
         IN  CASE k = 0 -> v \div 128
               [] k = 1 -> (v \div 64) % 2
               [] k = 2 -> (v \div 32) % 2
               [] k = 3 -> (v \div 16) % 2
               [] k = 4 -> (v \div 8) % 2
               [] k = 5 -> (v \div 4) % 2
               [] k = 6 -> (v \div 2) % 2
               [] OTHER -> v % 2

Sextet(str, j) ==
    32 * BitOfBytes(str, 6*j - 5) + 16 * BitOfBytes(str, 6*j - 4) + 8 * BitOfBytes(str, 6*j - 3)
    + 4 * BitOfBytes(str, 6*j - 2) + 2 * BitOfBytes(str, 6*j - 1) + BitOfBytes(str, 6*j)

\* ceil(n/3)*4
EncodedLen(n) == ((n + 2) \div 3) * 4

\* ceil(8n/6): the characters that carry bits
PayloadLen(n) == (8 * n + 5) \div 6

RefBase64(str) ==
    [j \in 1..EncodedLen(Len(str)) |->
        IF j <= PayloadLen(Len(str)) THEN AlphabetCode(Sextet(str, j)) ELSE AlphabetCode(64)]

(* C7: for a byte string of length n the encoder leaves ceil(n/3)*4 output
   positions and then a terminator: the alphabet characters of the 6-bit
   fields in order, a tail of 1 or 2 bytes zero-extended to 2 or 3 characters
   and the filler in the rest of the last group; [0x00,0x10,0x83] gives ABCD
   and [0xff] two characters and two fillers. *)
C7_Base64Output ==
    bpc = "done" =>
        LET L == EncodedLen(Len(bytes))
        IN  /\ SubSeq(mem.buf, 1, L) = RefBase64(bytes)
            /\ mem.buf[L + 1] = 0
            /\ \A j \in 1..PayloadLen(Len(bytes)) : \E i \in 0..63 : mem.buf[j] = AlphabetCode(i)
            /\ Len(bytes) % 3 = 1 => PayloadLen(Len(bytes)) = L - 2
            /\ Len(bytes) % 3 = 2 => PayloadLen(Len(bytes)) = L - 1
            /\ bytes = <<0, 16, 131>> => CString(mem.buf) = <<"A", "B", "C", "D">>
            /\ bytes = <<255>> =>
                  /\ CString(mem.buf) = <<"_", "w">>
                  /\ mem.buf[3] = AlphabetCode(64) /\ mem.buf[4] = AlphabetCode(64)

C7_Witness ==
    /\ bpc = "done"
    /\ bytes = <<0, 16, 131, 255, 16>>
    /\ CString(mem.buf) = <<"A", "B", "C", "D", "_", "x", "A">>

(* C10: the in-place conversion is safe for every length n: in the buffer of
   (n+5)/3*4 + 1 bytes with the input at its tail, every read and write
   (the copied NUL and the tail's out[0..4] too) is inside the buffer, and no
   output byte is written onto an input byte not read yet. *)
C10_InPlaceSafe ==
    bpc \in {"copy", "loop", "done"} =>
        /\ Len(mem.buf) = B64Len(Len(bytes)) + 1
        /\ mem.faults = {}
        /\ bpc = "done" => mem.unread = {}

C10_Witness ==
    /\ bpc = "done"
    /\ Len(bytes) = 5
    /\ inp = blen - 2 /\ outp = 4
    /\ mem.faults = {}

-----------------------------------------------------------------------------
(* The encoded input and the cursor over it (CborValue; cbor.h, cborparser.c) *)

\* One encoded data item.  n: the element or pair count of an array or map, the
\* code of a simple value, the class of a float (FloatWhole..FloatHuge);
\* neg: an integer's or float's sign, a boolean's value; s: an integer's raw
\* magnitude (bits), a byte string's bytes, a whole float's magnitude (bits);
\* t: a text string's characters, a float's %.17g text; g: a float's %.19g text.
Item(type, n, negative, s, t, g) ==
    [type |-> type, n |-> n, neg |-> negative, s |-> s, t |-> t, g |-> g]

\* the classes of a float or double value
FloatWhole == 0     \* finite, no fraction, magnitude below 2^64
FloatFrac  == 1     \* finite with a fraction
FloatNaN   == 2
FloatInf   == 3
FloatHuge  == 4     \* finite, magnitude 2^64: (uint64_t)fabs(val) is out of range

IsAggregate(type) == type \in {"CborArrayType", "CborMapType"}

\* preparse_value: the type of the item at the cursor; none past the end
PreparseValue(str, it) ==
    IF it.ptr > Len(str)
    THEN [err |-> "CborErrorUnexpectedEOF", it |-> [it EXCEPT !.type = "CborInvalidType"]]
    ELSE [err |-> "CborNoError", it |-> [it EXCEPT !.type = str[it.ptr].type]]

\* preparse_next_value: one item fewer remains (a tag does not count)
PreparseNextValue(str, it) ==
    IF it.type # "CborTagType" /\ it.remaining = 1
    THEN [err |-> "CborNoError", it |-> [it EXCEPT !.remaining = 0, !.type = "CborInvalidType"]]
    ELSE PreparseValue(str, [it EXCEPT !.remaining = IF it.type # "CborTagType" THEN @ - 1 ELSE @])

\* cbor_value_advance_fixed, and the `next` the string copies leave
AdvanceFixed(str, it) == PreparseNextValue(str, [it EXCEPT !.ptr = @ + 1])

\* cbor_value_enter_container
EnterContainer(str, it) ==
    LET n  == str[it.ptr].n
        in == [ptr |-> it.ptr + 1,
               remaining |-> IF it.type = "CborMapType" THEN 2 * n ELSE n,
               type |-> it.type]
    IN  IF n # 0 THEN PreparseValue(str, in)
        ELSE [err |-> "CborNoError", it |-> [in EXCEPT !.type = "CborInvalidType"]]

\* cbor_value_at_end
AtEnd(it) == it.remaining = 0

\* cbor_value_leave_container
LeaveContainer(str, it, recursed) == PreparseNextValue(str, [it EXCEPT !.ptr = recursed.ptr])

\* cbor_parser_init: the cursor at the first item of the buffer
InitCursor(str) == PreparseValue(str, [ptr |-> 1, remaining |-> 1, type |-> "CborInvalidType"]).it

-----------------------------------------------------------------------------
(* The sink, the allocator, and the record of what a conversion did *)

\* out: the text the sink holds; nw, na: the writes and allocations made so far;
\* ioFail, allocFail: which of them fails (0: none); build: what the build makes
\* of the places the C standard leaves open.
\*   "strict": assert() is compiled in, a store through a null-based pointer
\*             traps, a failed asprintf sets *strp to NULL, a double out of
\*             range converts to a uint64_t that differs from it;
\*   "lax":    NDEBUG, low memory is writable and printf shows a null string as
\*             (null), a failed asprintf leaves *strp as it was, a double out of
\*             range converts to UINT64_MAX.
\* log: one record per dispatcher call, map pair and key written;
\* errAt, errFirst: where and what the first error returned was.
NewWorld(f) ==
    [out |-> <<>>, nw |-> 0, na |-> 0, ioFail |-> f.io, allocFail |-> f.alloc,
     build |-> f.build, log |-> <<>>, errAt |-> 0, errFirst |-> "CborNoError"]

Event(kind, from, to, o1, o2, e) ==
    [kind |-> kind, from |-> from, to |-> to, o1 |-> o1, o2 |-> o2, err |-> e]

Logged(w, ev) == [w EXCEPT !.log = Append(@, ev)]

\* fprintf, fputc: the text reaches the sink, or the call fails
SinkWrite(w, text) ==
    IF w.nw + 1 = w.ioFail
    THEN [ok |-> FALSE, w |-> [w EXCEPT !.nw = @ + 1]]
    ELSE [ok |-> TRUE, w |-> [w EXCEPT !.nw = @ + 1, !.out = @ \o text]]

\* malloc, and the allocation inside strdup, asprintf, cbor_value_dup_text_string
Alloc(w) == [ok |-> w.na + 1 # w.allocFail, w |-> [w EXCEPT !.na = @ + 1]]

\* an error arises at position `at`
Fail(e, it, w, at) ==
    [err |-> e, it |-> it, s |-> <<>>,
     w |-> IF w.errFirst = "CborNoError" THEN [w EXCEPT !.errAt = at, !.errFirst = e] ELSE w]

Done(it, w, s) == [err |-> "CborNoError", it |-> it, w |-> w, s |-> s]

\* the result of a cursor operation, as the caller returns it
Returned(res, w) ==
    IF res.err # "CborNoError" THEN Fail(res.err, res.it, w, res.it.ptr) ELSE Done(res.it, w, <<>>)

Quoted(text) == <<"\"">> \o text \o <<"\"">>

-----------------------------------------------------------------------------
(* cbortojson.c *)

RECURSIVE B64Run(_, _, _, _)
B64Run(m, in, out, n) ==
    IF n >= 3 THEN B64Run(B64Round(m, in, out), in + 3, out + 4, n - 3)
    ELSE B64Tail(m, in, out, n)

\* generic_dump_base64 from the copy on, on a buffer that was allocated
B64Encode(str) ==
    LET n   == Len(str)
        len == B64Len(n)
        m   == [CopyByteString(NewMem(len), len - n, str) EXCEPT !.unread = (len - n)..(len - 1)]
    IN  CString(B64Run(m, len - n, 0, n).buf)

\* generic_dump_base64, dump_bytestring_base64url: the result string and the
\* cursor after the byte string.  malloc's result is not checked; the error of
\* cbor_value_copy_byte_string is only asserted.
DumpBase64(w, str, it) ==
    LET a    == Alloc(w)
        next == AdvanceFixed(str, it)
    IN  IF ~a.ok
        THEN IF w.build = "strict"
             THEN Fail("SIGSEGV", it, a.w, it.ptr)
             ELSE Done(next.it, a.w, <<"(", "n", "u", "l", "l", ")">>)
        ELSE IF next.err # "CborNoError" /\ w.build = "strict"
             THEN Fail("SIGABRT", next.it, a.w, next.it.ptr)
             ELSE Done(next.it, a.w, B64Encode(str[it.ptr].s))

\* cbor_value_dup_text_string(it, &str, &n, it)
DupTextString(w, str, it) ==
    LET a    == Alloc(w)
        next == AdvanceFixed(str, it)
    IN  IF ~a.ok THEN Fail("CborErrorOutOfMemory", it, a.w, it.ptr)
        ELSE IF next.err # "CborNoError" THEN Fail(next.err, next.it, a.w, next.it.ptr)
        ELSE Done(next.it, a.w, str[it.ptr].t)

SimpleText(n) == <<"s", "i", "m", "p", "l", "e", "(">> \o FmtU64(BitsOf(n)) \o <<")">>

\* the tail without cbor_value_advance_fixed: the cursor stays at the key
KeyMadeNoAdvance(w, str, it, text, byAsprintf) ==
    LET a == Alloc(w)
    IN  IF a.ok \/ (byAsprintf /\ w.build = "lax") THEN Done(it, a.w, text)
        ELSE Fail("CborErrorOutOfMemory", it, a.w, it.ptr)

\* stringify_map_key's tail: the NULL check and the advance.  strdup leaves
\* NULL on failure; what asprintf leaves is the libc's choice, and `key` was
\* not initialised.
KeyMade(w, str, it, text, byAsprintf) ==
    LET a == Alloc(w)
    IN  IF a.ok THEN LET next == AdvanceFixed(str, it)
                     IN  IF next.err # "CborNoError"
                         THEN Fail(next.err, next.it, a.w, next.it.ptr)
                         ELSE Done(next.it, a.w, text)
        ELSE IF byAsprintf /\ w.build = "lax"
        THEN LET next == AdvanceFixed(str, it)
             IN  IF next.err # "CborNoError"
                 THEN Fail(next.err, next.it, a.w, next.it.ptr)
                 ELSE Done(next.it, a.w, <<"?">>)
        ELSE Fail("CborErrorOutOfMemory", it, a.w, it.ptr)

StringifyMapKey(w, str, it, fl, type) ==
    LET item == str[it.ptr]
    IN  CASE IsAggregate(type) ->
               Fail("CborErrorJsonObjectKeyIsAggregate", it, w, it.ptr)
          [] type = "CborIntegerType" ->
               KeyMade(w, str, it, StringifyInteger(item.s, item.neg, GetInt64Wrap(item.s)), TRUE)
          [] type = "CborByteStringType" -> DumpBase64(w, str, it)
          [] type = "CborTextStringType" -> Fail("CborErrorInternalError", it, w, it.ptr)
          [] type = "CborTagType" -> Fail("CborErrorUnsupportedType", it, w, it.ptr)
          [] type = "CborSimpleType" -> KeyMade(w, str, it, SimpleText(item.n), TRUE)
          [] type = "CborNullType" -> KeyMade(w, str, it, <<"n", "u", "l", "l">>, FALSE)
          [] type = "CborUndefinedType" ->
               KeyMade(w, str, it, <<"u", "n", "d", "e", "f", "i", "n", "e", "d">>, FALSE)
          [] type = "CborBooleanType" ->
               KeyMade(w, str, it, IF item.neg THEN <<"t", "r", "u", "e">>
                                   ELSE <<"f", "a", "l", "s", "e">>, FALSE)
          [] type \in {"CborDoubleType", "CborFloatType"} ->
               IF item.n \in {FloatNaN, FloatInf}
               THEN KeyMade(w, str, it, <<"n", "u", "l", "l">>, FALSE)
               ELSE KeyMade(w, str, it, item.g, TRUE)
          [] type = "CborHalfFloatType" -> Fail("CborErrorUnsupportedType", it, w, it.ptr)
          [] OTHER -> Fail("CborErrorUnknownType", it, w, it.ptr)

\* the parent cursor left where it was
NoResync(it, recursed) == it

\* it->ptr = recursed.ptr
Resync(it, recursed) == [it EXCEPT !.ptr = recursed.ptr]

\* the text value_to_json writes for a float or double
FloatText(w, item) ==
    CASE item.n \in {FloatNaN, FloatInf} -> <<"n", "u", "l", "l">>
      [] item.n = FloatWhole -> (IF item.neg /\ item.s # <<>> THEN <<"-">> ELSE <<>>) \o FmtU64(item.s)
      [] item.n = FloatHuge /\ w.build = "lax" ->
            (IF item.neg THEN <<"-">> ELSE <<>>) \o FmtU64(Ones(W64))
      [] OTHER -> item.t

\* the text value_to_json writes for a value that is no container and no string
ScalarText(w, item, type) ==
    CASE type = "CborIntegerType" -> RenderInteger(item.s, item.neg)
      [] type = "CborSimpleType" -> Quoted(SimpleText(item.n))
      [] type = "CborNullType" -> <<"n", "u", "l", "l">>
      [] type = "CborUndefinedType" -> Quoted(<<"u", "n", "d", "e", "f", "i", "n", "e", "d">>)
      [] type = "CborBooleanType" ->
            IF item.neg THEN <<"t", "r", "u", "e">> ELSE <<"f", "a", "l", "s", "e">>
      [] OTHER -> FloatText(w, item)

\* the key's string with the flag not looked at
MapKeyNoFlagCheck(w, str, it, fl) ==
    IF it.type = "CborTextStringType" THEN DupTextString(w, str, it)
    ELSE StringifyMapKey(w, str, it, fl, it.type)

\* map_to_json: the string of the key at the cursor
MapKey(w, str, it, fl) ==
    IF it.type = "CborTextStringType" THEN DupTextString(w, str, it)
    ELSE IF "CborConvertStringifyMapKeys" \in fl THEN StringifyMapKey(w, str, it, fl, it.type)
    ELSE Fail("CborErrorJsonObjectKeyNotString", it, w, it.ptr)

\* comma = "," from the start
CommaAlways(first) == <<",">>

\* const char *comma = ""; ... comma = ","
Comma(first) == IF first THEN <<>> ELSE <<",">>

RECURSIVE ValueToJson(_, _, _, _, _)
RECURSIVE ArrayToJson(_, _, _, _, _)
RECURSIVE MapToJson(_, _, _, _, _)

\* array_to_json: r is what value_to_json returned for the element
ArrayNext(r, str, fl) ==
    IF r.err # "CborNoError" THEN r ELSE ArrayToJson(r.w, str, r.it, fl, FALSE)

\* array_to_json: wr is the result of writing the comma
ArrayElement(wr, str, it, fl) ==
    IF ~wr.ok THEN Fail("CborErrorIO", it, wr.w, it.ptr)
    ELSE ArrayNext(ValueToJson(wr.w, str, it, fl, it.type), str, fl)

\* array_to_json; first: comma is still ""
ArrayToJson(w, str, it, fl, first) ==
    IF AtEnd(it) THEN Done(it, w, <<>>)
    ELSE ArrayElement(SinkWrite(w, Comma(first)), str, it, fl)

\* map_to_json: v is what value_to_json returned for the pair's value
MapNext(v, str, fl) ==
    IF v.err # "CborNoError" THEN v ELSE MapToJson(v.w, str, v.it, fl, FALSE)

\* map_to_json: wk is the result of writing the key k, which was at keyAt
MapValue(wk, k, keyAt, str, fl) ==
    IF ~wk.ok THEN Fail("CborErrorIO", k.it, wk.w, k.it.ptr)
    ELSE MapNext(ValueToJson(Logged(wk.w, Event("key", keyAt, k.it.ptr,
                                                Len(k.w.out), Len(wk.w.out), "")),
                             str, k.it, fl, k.it.type),
                 str, fl)

\* map_to_json: k is the key's string, or the error of making it
MapKeyPrinted(k, keyAt, str, fl) ==
    IF k.err # "CborNoError" THEN k
    ELSE MapValue(SinkWrite(k.w, Quoted(k.s) \o <<":">>), k, keyAt, str, fl)

\* map_to_json: wr is the result of writing the comma
MapPair(wr, str, it, fl) ==
    IF ~wr.ok THEN Fail("CborErrorIO", it, wr.w, it.ptr)
    ELSE MapKeyPrinted(MapKey(Logged(wr.w, Event("pair", it.ptr, 0, Len(wr.w.out), 0, "")),
                              str, it, fl),
                       it.ptr, str, fl)

\* map_to_json
MapToJson(w, str, it, fl, first) ==
    IF AtEnd(it) THEN Done(it, w, <<>>)
    ELSE MapPair(SinkWrite(w, Comma(first)), str, it, fl)

\* value_to_json, case CborArrayType, CborMapType: wc is the result of
\* writing the closing bracket
ContainerClosed(wc, str, it, recursed) ==
    IF ~wc.ok THEN Fail("CborErrorIO", it, wc.w, it.ptr)
    ELSE Returned(LeaveContainer(str, it, recursed), wc.w)

\* r is what array_to_json or map_to_json returned
ContainerDone(r, str, it, isArray) ==
    IF r.err # "CborNoError"
    THEN [err |-> r.err, it |-> Resync(it, r.it), w |-> r.w, s |-> <<>>]
    ELSE ContainerClosed(SinkWrite(r.w, IF isArray THEN <<"]">> ELSE <<"}">>), str, it, r.it)

\* wb is the result of writing the opening bracket
ContainerOpened(wb, recursed, str, it, fl, isArray) ==
    IF ~wb.ok THEN Fail("CborErrorIO", it, wb.w, it.ptr)
    ELSE ContainerDone(IF isArray THEN ArrayToJson(wb.w, str, recursed, fl, TRUE)
                                  ELSE MapToJson(wb.w, str, recursed, fl, TRUE),
                       str, it, isArray)

\* e is what cbor_value_enter_container returned
ContainerEntered(e, w, str, it, fl, isArray) ==
    IF e.err # "CborNoError" THEN Fail(e.err, Resync(it, e.it), w, e.it.ptr)
    ELSE ContainerOpened(SinkWrite(w, IF isArray THEN <<"[">> ELSE <<"{">>),
                         e.it, str, it, fl, isArray)

ContainerToJson(w, str, it, fl, type) ==
    ContainerEntered(EnterContainer(str, it), w, str, it, fl, type = "CborArrayType")

\* value_to_json, case CborByteStringType, CborTextStringType: d is the string
\* made, wr the result of writing it
StringPrinted(wr, d) ==
    IF ~wr.ok THEN Fail("CborErrorIO", d.it, wr.w, d.it.ptr) ELSE Done(d.it, wr.w, <<>>)

StringMade(d) ==
    IF d.err # "CborNoError" THEN d ELSE StringPrinted(SinkWrite(d.w, Quoted(d.s)), d)

StringToJson(w, str, it, type) ==
    StringMade(IF type = "CborByteStringType" THEN DumpBase64(w, str, it)
               ELSE DupTextString(w, str, it))

\* value_to_json, the cases that print and break: wr is the result of the write
ScalarPrinted(wr, str, it) ==
    IF ~wr.ok THEN Fail("CborErrorIO", it, wr.w, it.ptr)
    ELSE Returned(AdvanceFixed(str, it), wr.w)

\* value_to_json
ValueToJsonBody(w, str, it, fl, type) ==
    CASE IsAggregate(type) -> ContainerToJson(w, str, it, fl, type)
      [] type \in {"CborByteStringType", "CborTextStringType"} -> StringToJson(w, str, it, type)
      [] type \in {"CborTagType", "CborHalfFloatType"} ->
            Fail("CborErrorUnsupportedType", it, w, it.ptr)
      [] type = "CborInvalidType" -> Fail("CborErrorUnknownType", it, w, it.ptr)
      [] OTHER -> ScalarPrinted(SinkWrite(w, ScalarText(w, str[it.ptr], type)), str, it)

\* the call of value_to_json that began at `from` with o1 characters in the
\* sink and returned r, noted in the log
ValueLogged(r, from, o1) ==
    [r EXCEPT !.w = Logged(@, Event("value", from, r.it.ptr, o1, Len(r.w.out), r.err))]

ValueToJson(w, str, it, fl, type) ==
    ValueLogged(ValueToJsonBody(w, str, it, fl, type), it.ptr, Len(w.out))

-----------------------------------------------------------------------------
(* Conversions of whole inputs *)

U42        == Item("CborIntegerType", 0, FALSE, BitsOf(42), <<>>, <<>>)
NegOne     == Item("CborIntegerType", 0, TRUE, <<>>, <<>>, <<>>)
TextK      == Item("CborTextStringType", 0, FALSE, <<>>, <<"k">>, <<>>)
TextQuote  == Item("CborTextStringType", 0, FALSE, <<>>, <<"a", "\"", "b">>, <<>>)
TextEmpty  == Item("CborTextStringType", 0, FALSE, <<>>, <<>>, <<>>)
Bytes0     == Item("CborByteStringType", 0, FALSE, <<>>, <<>>, <<>>)
Bytes1     == Item("CborByteStringType", 0, FALSE, <<255>>, <<>>, <<>>)
Bytes3     == Item("CborByteStringType", 0, FALSE, <<0, 16, 131>>, <<>>, <<>>)
TagItem    == Item("CborTagType", 0, FALSE, <<>>, <<>>, <<>>)
Simple32   == Item("CborSimpleType", 32, FALSE, <<>>, <<>>, <<>>)
TrueItem   == Item("CborBooleanType", 0, TRUE, <<>>, <<>>, <<>>)
FalseItem  == Item("CborBooleanType", 0, FALSE, <<>>, <<>>, <<>>)
NullItem   == Item("CborNullType", 0, FALSE, <<>>, <<>>, <<>>)
UndefItem  == Item("CborUndefinedType", 0, FALSE, <<>>, <<>>, <<>>)
HalfItem   == Item("CborHalfFloatType", FloatFrac, FALSE, <<>>, <<"1", ".", "5">>, <<"1", ".", "5">>)
Float35    == Item("CborFloatType", FloatFrac, FALSE, <<>>, <<"3", ".", "5">>, <<"3", ".", "5">>)
Double35   ==
    Item("CborDoubleType", FloatFrac, TRUE, <<>>, <<"-", "3", ".", "5">>, <<"-", "3", ".", "5">>)
DoubleNeg2 == Item("CborDoubleType", FloatWhole, TRUE, BitsOf(2), <<"-", "2">>, <<"-", "2">>)
DoubleNaN  == Item("CborDoubleType", FloatNaN, FALSE, <<>>, <<>>, <<>>)
FloatInfty == Item("CborFloatType", FloatInf, TRUE, <<>>, <<>>, <<>>)
Double2p64 ==
    Item("CborDoubleType", FloatHuge, FALSE, <<>>,
         <<"1", ".", "8", "4", "4", "6", "7", "4", "4", "0", "7", "3", "7", "0", "9", "5", "5", "2",
           "e", "+", "1", "9">>,
         <<"1", ".", "8", "4", "4", "6", "7", "4", "4", "0", "7", "3", "7", "0", "9", "5", "5", "1",
           "6", "2", "e", "+", "1", "9">>)

Arr(n) == Item("CborArrayType", n, FALSE, <<>>, <<>>, <<>>)
MapOf(n) == Item("CborMapType", n, FALSE, <<>>, <<>>, <<>>)

MaxCount == 2
MaxTokens == 4
MaxIoFail == 4
MaxAllocFail == 2

Scalars ==
    {U42, NegOne, TextK, TextQuote, TextEmpty, Bytes0, Bytes1, Bytes3, TagItem, Simple32,
     TrueItem, FalseItem, NullItem, UndefItem, HalfItem, Float35, Double35, DoubleNeg2,
     DoubleNaN, FloatInfty, Double2p64}

AllItems == Scalars \cup {Arr(n) : n \in 0..MaxCount} \cup {MapOf(n) : n \in 0..MaxCount}

CoreItems == {U42, TextK, Bytes1, TagItem, Arr(1), Arr(2), MapOf(1)}

\* every sequence of core items: well-formed, truncated, nested
CoreStreams == UNION {[1..k -> CoreItems] : k \in 1..MaxTokens}

\* every item as a top-level value, an element, a key, a value, nested
ContextStreams ==
    {<<x>> : x \in AllItems}
    \cup UNION {{<<Arr(1), x>>, <<Arr(1), Arr(1), x>>, <<Arr(2), TextK, x>>, <<Arr(2), x, U42>>,
                 <<MapOf(1), TextK, x>>, <<Arr(1), MapOf(1), TextK, x>>,
                 <<MapOf(2), TextK, U42, TextK, x>>, <<MapOf(1), TextK, Arr(2), U42, x>>}
                : x \in AllItems}
    \cup UNION {{<<MapOf(1), x, y>>, <<MapOf(2), TextK, U42, x, y>>, <<Arr(1), MapOf(1), x, y>>,
                 <<MapOf(2), x, y, TextK, U42>>}
                : x \in AllItems, y \in CoreItems}

Builds == {"strict", "lax"}

NoFault == {[io |-> 0, alloc |-> 0, build |-> b] : b \in Builds}

Faults ==
    NoFault
    \cup {[io |-> k, alloc |-> 0, build |-> b] : k \in 1..MaxIoFail, b \in Builds}
    \cup {[io |-> 0, alloc |-> j, build |-> b] : j \in 1..MaxAllocFail, b \in Builds}

ConvInit ==
    /\ IntIdle
    /\ B64Idle
    /\ \/ stream \in CoreStreams /\ fault \in NoFault
       \/ stream \in ContextStreams /\ fault \in Faults
    /\ flags \in SUBSET {"CborConvertStringifyMapKeys"}
    /\ cursor = InitCursor(stream)
    /\ world = NewWorld(fault)
    /\ err = "CborNoError"
    /\ pc = "ready"

\* cbor_value_to_json_advance(out, value, flags)
Convert ==
    /\ pc = "ready"
    /\ LET r == ValueToJson(world, stream, cursor, flags, cursor.type)
       IN  /\ cursor' = r.it
           /\ world' = r.w
           /\ err' = r.err
    /\ pc' = "done"
    /\ UNCHANGED <<stream, flags, fault>>
    /\ UNCHANGED ivars
    /\ UNCHANGED bvars

Next == Convert

Spec == ConvInit /\ [][Next]_vars

-----------------------------------------------------------------------------
(* What the claims about conversions are stated with *)

\* the position after the item at p and all it contains
RECURSIVE SubtreeEnd(_, _)
RECURSIVE SkipItems(_, _, _)
SubtreeEnd(str, p) ==
    IF p > Len(str) THEN p
    ELSE CASE str[p].type = "CborArrayType" -> SkipItems(str, p + 1, str[p].n)
           [] str[p].type = "CborMapType" -> SkipItems(str, p + 1, 2 * str[p].n)
           [] str[p].type = "CborTagType" -> SubtreeEnd(str, p + 1)
           [] OTHER -> p + 1

SkipItems(str, p, k) == IF k = 0 THEN p ELSE SkipItems(str, SubtreeEnd(str, p), k - 1)

\* the position of the k-th item inside the container at p
Child(str, p, k) == SkipItems(str, p + 1, k - 1)

CharAt(t, i) == IF i >= 1 /\ i <= Len(t) THEN t[i] ELSE ""

\* the first position from i on that holds no digit
RECURSIVE DigitsEnd(_, _)
DigitsEnd(t, i) == IF IsDigit(CharAt(t, i)) THEN DigitsEnd(t, i + 1) ELSE i

\* JSON's grammar (RFC 8259) without whitespace and escape sequences, which the
\* converter never writes: each operator yields the position after what it
\* recognises at i, or 0
JLiteral(t, i, word) ==
    IF i + Len(word) - 1 <= Len(t) /\ SubSeq(t, i, i + Len(word) - 1) = word
    THEN i + Len(word) ELSE 0

RECURSIVE JStringEnd(_, _)
JStringEnd(t, i) ==
    CASE CharAt(t, i) = "\"" -> i + 1
      [] CharAt(t, i) \in {"", "\\"} -> 0
      [] OTHER -> JStringEnd(t, i + 1)

JString(t, i) == IF CharAt(t, i) = "\"" THEN JStringEnd(t, i + 1) ELSE 0

JNumber(t, i) ==
    LET i1 == IF CharAt(t, i) = "-" THEN i + 1 ELSE i
        i2 == CASE CharAt(t, i1) = "0" -> i1 + 1
                [] IsDigit(CharAt(t, i1)) -> DigitsEnd(t, i1)
                [] OTHER -> 0
        i3 == IF i2 # 0 /\ CharAt(t, i2) = "."
              THEN (IF DigitsEnd(t, i2 + 1) > i2 + 1 THEN DigitsEnd(t, i2 + 1) ELSE 0)
              ELSE i2
        i4 == IF i3 # 0 /\ CharAt(t, i3) \in {"e", "E"}
              THEN LET j == IF CharAt(t, i3 + 1) \in {"+", "-"} THEN i3 + 2 ELSE i3 + 1
                   IN  IF DigitsEnd(t, j) > j THEN DigitsEnd(t, j) ELSE 0
              ELSE i3
    IN  i4

RECURSIVE JValue(_, _)
RECURSIVE JElements(_, _)
RECURSIVE JMembers(_, _)
JValue(t, i) ==
    CASE CharAt(t, i) = "\"" -> JString(t, i)
      [] CharAt(t, i) = "n" -> JLiteral(t, i, <<"n", "u", "l", "l">>)
      [] CharAt(t, i) = "t" -> JLiteral(t, i, <<"t", "r", "u", "e">>)
      [] CharAt(t, i) = "f" -> JLiteral(t, i, <<"f", "a", "l", "s", "e">>)
      [] CharAt(t, i) = "[" -> IF CharAt(t, i + 1) = "]" THEN i + 2 ELSE JElements(t, i + 1)
      [] CharAt(t, i) = "{" -> IF CharAt(t, i + 1) = "}" THEN i + 2 ELSE JMembers(t, i + 1)
      [] OTHER -> JNumber(t, i)

JElements(t, i) ==
    LET j == JValue(t, i)
    IN  CASE j = 0 -> 0
          [] CharAt(t, j) = "," -> JElements(t, j + 1)
          [] CharAt(t, j) = "]" -> j + 1
          [] OTHER -> 0

JMembers(t, i) ==
    LET k == JString(t, i)
        j == IF k # 0 /\ CharAt(t, k) = ":" THEN JValue(t, k + 1) ELSE 0
    IN  CASE j = 0 -> 0
          [] CharAt(t, j) = "," -> JMembers(t, j + 1)
          [] CharAt(t, j) = "}" -> j + 1
          [] OTHER -> 0

\* t is exactly one JSON value
IsJsonValue(t) == t # <<>> /\ JValue(t, 1) = Len(t) + 1

\* the log
LogOf(kind) == {world.log[i] : i \in {j \in 1..Len(world.log) : world.log[j].kind = kind}}

\* the sink's text after position a up to position b
OutSeg(a, b) == SubSeq(world.out, a + 1, b)

NoFaultInjected == fault.io = 0 /\ fault.alloc = 0

Stringify == "CborConvertStringifyMapKeys" \in flags

\* the string a key stands for, by the per-type policy: decimal digits of an
\* integer, base64url of a byte string without filler, simple(N), the names
\* of null, undefined, true and false, null for NaN and infinities, %.19g of
\* any other float
RefKeyText(item) ==
    CASE item.type = "CborIntegerType" ->
            (IF item.neg THEN <<"-">> ELSE <<>>) \o FmtU64(IntMagnitude(item.s, item.neg))
      [] item.type = "CborByteStringType" ->
            [j \in 1..PayloadLen(Len(item.s)) |-> Alphabet[Sextet(item.s, j) + 1]]
      [] item.type = "CborSimpleType" -> SimpleText(item.n)
      [] item.type = "CborNullType" -> <<"n", "u", "l", "l">>
      [] item.type = "CborUndefinedType" -> <<"u", "n", "d", "e", "f", "i", "n", "e", "d">>
      [] item.type = "CborBooleanType" ->
            IF item.neg THEN <<"t", "r", "u", "e">> ELSE <<"f", "a", "l", "s", "e">>
      [] item.type \in {"CborFloatType", "CborDoubleType"} /\ item.n \in {FloatNaN, FloatInf} ->
            <<"n", "u", "l", "l">>
      [] OTHER -> item.g

(* C1: every dispatcher call that returns success, on a value of any supported
   type at any depth, has appended exactly one complete JSON value to the sink
   and has left the cursor immediately after the value (after the whole
   subtree of a container). *)
C1_CursorAdvanced ==
    pc = "done" /\ NoFaultInjected =>
        \A e \in LogOf("value") : e.err = "CborNoError" => e.to = SubtreeEnd(stream, e.from)

C1_OneValuePerCall ==
    pc = "done" /\ NoFaultInjected =>
        \A e \in LogOf("value") :
            e.err = "CborNoError" =>
                /\ e.to = SubtreeEnd(stream, e.from)
                /\ IsJsonValue(OutSeg(e.o1, e.o2))

ScalarKeyTypes ==
    {"CborIntegerType", "CborByteStringType", "CborSimpleType", "CborBooleanType",
     "CborNullType", "CborUndefinedType", "CborHalfFloatType", "CborFloatType",
     "CborDoubleType"}

\* the pair noted by e has a value in the input
ValuePresent(e) == e.from + 1 <= Len(stream)

\* the key of the pair noted by e was written as a quoted string and ':',
\* and the pair's value was dispatched right after it
KeyRendered(e) ==
    \E k \in LogOf("key") :
        /\ k.from = e.from /\ k.o1 = e.o1 /\ k.to = e.from + 1
        /\ OutSeg(k.o1, k.o2) = <<"\"">> \o RefKeyText(stream[e.from]) \o <<"\"", ":">>
        /\ \E v \in LogOf("value") : v.from = k.to /\ v.o1 = k.o2

\* the conversion ended at the key of the pair noted by e with error code,
\* having written nothing for the pair
KeyRejected(e, code) ==
    /\ err = code /\ world.errFirst = code /\ world.errAt = e.from
    /\ cursor.ptr = e.from
    /\ Len(world.out) = e.o1
    /\ ~ \E k \in LogOf("key") : k.from = e.from

(* C3: a map key that is a scalar other than a text string (say the integer
   42) ends the conversion with CborErrorJsonObjectKeyNotString when
   CborConvertStringifyMapKeys is unset; when the flag is set the key is
   written as a quoted JSON string holding its stringified form, then ':' and
   the pair's value, and the conversion goes on. *)
C3_Original ==
    pc = "done" /\ NoFaultInjected =>
        \A e \in LogOf("pair") :
            stream[e.from].type \in ScalarKeyTypes /\ ValuePresent(e) =>
                IF Stringify THEN KeyRendered(e)
                ELSE KeyRejected(e, "CborErrorJsonObjectKeyNotString")

(* C3, amended: with the flag unset such a key ends the conversion with
   CborErrorJsonObjectKeyNotString and nothing is written for the pair; with
   the flag set a half-float key ends it with CborErrorUnsupportedType, and a
   key of any other scalar type whose value is in the input is written as a
   quoted JSON string holding its stringified form, then ':', and the pair's
   value is dispatched, unless the write of the key fails: the conversion
   then ends with CborErrorIO and no key is written. This for conversions in
   which every allocation succeeds. *)
C3_Amended ==
    pc = "done" =>
        \A e \in LogOf("pair") :
            stream[e.from].type \in ScalarKeyTypes =>
                /\ ~Stringify => KeyRejected(e, "CborErrorJsonObjectKeyNotString")
                /\ Stringify /\ stream[e.from].type = "CborHalfFloatType" =>
                       KeyRejected(e, "CborErrorUnsupportedType")
                /\ Stringify /\ stream[e.from].type # "CborHalfFloatType"
                       /\ ValuePresent(e) /\ fault.alloc = 0 =>
                       \/ KeyRendered(e)
                       \/ /\ err = "CborErrorIO"
                          /\ Len(world.out) = e.o1
                          /\ ~ \E k \in LogOf("key") : k.from = e.from

C3_Witness ==
    /\ pc = "done" /\ Stringify /\ err = "CborNoError"
    /\ stream = <<MapOf(1), U42, TextK>>
    /\ world.out = <<"{", "\"", "4", "2", "\"", ":", "\"", "k", "\"", "}">>

(* C4: a map key that is an array or a map ends the conversion with
   CborErrorJsonObjectKeyIsAggregate. *)
C4_Original ==
    pc = "done" =>
        \A e \in LogOf("pair") :
            IsAggregate(stream[e.from].type) =>
                KeyRejected(e, "CborErrorJsonObjectKeyIsAggregate")

(* C4, amended: a map key that is an array or a map always ends the
   conversion at the key: with CborErrorJsonObjectKeyIsAggregate when
   CborConvertStringifyMapKeys is set, with CborErrorJsonObjectKeyNotString
   when it is unset. *)
C4_Amended ==
    pc = "done" =>
        \A e \in LogOf("pair") :
            IsAggregate(stream[e.from].type) =>
                KeyRejected(e, IF Stringify THEN "CborErrorJsonObjectKeyIsAggregate"
                               ELSE "CborErrorJsonObjectKeyNotString")

C4_Witness ==
    /\ pc = "done" /\ Stringify
    /\ err = "CborErrorJsonObjectKeyIsAggregate"
    /\ \E e \in LogOf("pair") : stream[e.from].type = "CborArrayType" /\ e.from > 2

(* C5: when the conversion of a nested container fails, every enclosing call
   returns the same error with its cursor at the place of the failure (the
   inner cursor's position), and so does the outermost one. *)
C5_Resync ==
    pc = "done" /\ err \notin {"CborNoError", "SIGSEGV", "SIGABRT"} =>
        /\ err = world.errFirst
        /\ cursor.ptr = world.errAt
        /\ \A e \in LogOf("value") :
               e.err # "CborNoError" => e.err = world.errFirst /\ e.to = world.errAt

C5_Witness ==
    /\ pc = "done" /\ err = "CborErrorUnsupportedType"
    /\ stream[1].type = "CborArrayType" /\ Len(stream) >= 3
    /\ stream[2].type \in {"CborArrayType", "CborMapType"}
    /\ cursor.ptr >= 3
    /\ Cardinality({e \in LogOf("value") : e.err # "CborNoError"}) >= 3

\* the call of the dispatcher on the value at p, the writing of the key at p
ValEv(p) == CHOOSE v \in LogOf("value") : v.from = p
KeyEv(p) == CHOOSE k \in LogOf("key") : k.from = p
HasValEv(p) == \E v \in LogOf("value") : v.from = p /\ v.err = "CborNoError"
HasKeyEv(p) == \E k \in LogOf("key") : k.from = p

\* the text of the k-th element of the container noted by e: where it starts
\* and ends in the sink
ElemStart(e, k) ==
    IF stream[e.from].type = "CborArrayType" THEN ValEv(Child(stream, e.from, k)).o1
    ELSE KeyEv(Child(stream, e.from, 2 * k - 1)).o1

ElemEnd(e, k) ==
    IF stream[e.from].type = "CborArrayType" THEN ValEv(Child(stream, e.from, k)).o2
    ELSE ValEv(Child(stream, e.from, 2 * k)).o2

ElemWritten(e, k) ==
    IF stream[e.from].type = "CborArrayType" THEN HasValEv(Child(stream, e.from, k))
    ELSE LET kp == Child(stream, e.from, 2 * k - 1)
             vp == Child(stream, e.from, 2 * k)
         IN  /\ HasKeyEv(kp) /\ HasValEv(vp)
             /\ KeyEv(kp).o2 = ValEv(vp).o1
             /\ KeyEv(kp).o2 - KeyEv(kp).o1 >= 3
             /\ world.out[KeyEv(kp).o1 + 1] = "\""
             /\ world.out[KeyEv(kp).o2 - 1] = "\""
             /\ world.out[KeyEv(kp).o2] = ":"

(* C6: a container that is converted with success is written as its opening
   bracket, its n elements (an array's values, a map's "key":value pairs)
   with exactly one ',' between neighbours, none after the opening and none
   before the closing bracket, and its closing bracket; an empty array is []
   and an empty map is {}. *)
C6_Layout ==
    pc = "done" =>
        \A e \in LogOf("value") :
            e.err = "CborNoError" /\ IsAggregate(stream[e.from].type) =>
                LET n == stream[e.from].n
                    isArray == stream[e.from].type = "CborArrayType"
                IN  /\ world.out[e.o1 + 1] = (IF isArray THEN "[" ELSE "{")
                    /\ world.out[e.o2] = (IF isArray THEN "]" ELSE "}")
                    /\ n = 0 => e.o2 = e.o1 + 2
                    /\ \A k \in 1..n : ElemWritten(e, k)
                    /\ n >= 1 => ElemStart(e, 1) = e.o1 + 1 /\ ElemEnd(e, n) = e.o2 - 1
                    /\ \A k \in 1..(n - 1) :
                           /\ world.out[ElemEnd(e, k) + 1] = ","
                           /\ ElemStart(e, k + 1) = ElemEnd(e, k) + 1

C6_Witness ==
    /\ pc = "done" /\ err = "CborNoError"
    /\ stream = <<MapOf(2), TextK, U42, TextK, U42>>
    /\ world.out = <<"{", "\"", "k", "\"", ":", "4", "2", ",",
                     "\"", "k", "\"", ":", "4", "2", "}">>

(* C8: when an allocation for a key string or for a base64 buffer fails, the
   conversion returns CborErrorOutOfMemory and neither reads nor writes
   through the allocation that failed. *)
C8_OutOfMemory ==
    pc = "done" /\ fault.alloc > 0 /\ world.na >= fault.alloc =>
        err = "CborErrorOutOfMemory" /\ world.errFirst = "CborErrorOutOfMemory"

-----------------------------------------------------------------------------
(* The integer cases, applied to magnitudes over the whole 64-bit range *)

MaxSmall == 12

\* exponents around the significand's width and the word's width
Exps == {MantBits - 1, MantBits, MantBits + 1, W64 - 2, W64 - 1}

Magnitudes ==
    {BitsOf(k) : k \in 0..MaxSmall}
    \cup {Ones(e) : e \in Exps \cup {W64}}
    \cup {Pow2(e) : e \in Exps}
    \cup {Pow2(e - 1) \o <<1>> : e \in Exps}
    \cup {Pow2(e - 2) \o <<1, 0>> : e \in Exps}
    \cup {Pow2(e - 2) \o <<1, 1>> : e \in Exps}
    \cup {<<1>> \o Zeros(W64 - MantBits - 1) \o <<1>> \o Zeros(W64 - MantBits - 1),
          <<1>> \o Zeros(W64 - MantBits - 1) \o <<1>> \o Zeros(W64 - MantBits - 2) \o <<1>>,
          Ones(MantBits) \o Zeros(W64 - MantBits),
          Ones(MantBits + 1) \o Zeros(W64 - MantBits - 1)}

IntInit ==
    /\ B64Idle
    /\ ConvIdle
    /\ mag \in Magnitudes
    /\ neg \in BOOLEAN
    /\ ipc = "start"
    /\ valText = <<>>
    /\ keyText = <<>>

\* the integer as a value: value_to_json prints it
IntAsValue ==
    /\ ipc = "start"
    /\ valText' = RenderInteger(mag, neg)
    /\ ipc' = "rendered"
    /\ UNCHANGED <<mag, neg, keyText>>
    /\ UNCHANGED bvars
    /\ UNCHANGED cvars

\* the same integer as a map key: stringify_map_key makes its string
IntAsKey ==
    /\ ipc = "rendered"
    /\ IF ~neg
       THEN keyText' = StringifyInteger(mag, neg, mag) /\ ipc' = "done"
       ELSE \E val \in GetInt64(mag) :
                IF val = <<"trap">>
                THEN keyText' = <<>> /\ ipc' = "aborted"
                ELSE keyText' = StringifyInteger(mag, neg, val) /\ ipc' = "done"
    /\ UNCHANGED <<mag, neg, valText>>
    /\ UNCHANGED bvars
    /\ UNCHANGED cvars

IntNext == IntAsValue \/ IntAsKey

SpecInt == IntInit /\ [][IntNext]_vars

\* whether b has at most MantBits significant bits: a double holds it exactly
Representable(b) == \A i \in 1..Len(b) : b[i] = 1 => i <= MantBits

\* b <= 2^MantBits
AtMostPow2Mant(b) == Len(b) <= MantBits \/ b = Pow2(MantBits)

(* C2 (as stated): for every integer in [-2^63, 2^64-1] the text the scalar
   renderer prints, parsed back as a number, is the integer itself. *)
C2_Original ==
    (ipc \in {"rendered", "done", "aborted"}
        /\ (neg => Len(mag) < W64))
    => ParseNumber(valText) = IntValue(mag, neg)

(* C2 (amended): the printed text parses back to the integer itself whenever
   the integer lies in [-2^53, 2^53], is non-negative and has at most 53
   significant bits, or is -2^63; otherwise the text parses to the double
   nearest to the magnitude (less one more when negative, rounded again). *)
C2_Amended ==
    ipc \in {"rendered", "done", "aborted"} =>
        /\ (AtMostPow2Mant(IntMagnitude(mag, neg))
              \/ (~neg /\ Representable(mag))
              \/ (neg /\ mag = Ones(W64 - 1)))
            => ParseNumber(valText) = IntValue(mag, neg)
        /\ ParseNumber(valText).d = DecDigits(
              IF neg THEN RoundToDouble(Inc(RoundToDouble(mag))) ELSE RoundToDouble(mag))
        /\ ParseNumber(valText).sign = neg

C2_Witness ==
    /\ ipc = "rendered" /\ neg /\ mag = Ones(W64 - 1)
    /\ valText = <<"-">> \o FmtU64(Pow2(W64 - 1))

(* C9: the map-key stringifier produces the exact decimal text of every
   integer key: of the magnitude when the key is non-negative, of
   -magnitude-1 when it is negative, over the whole range of 64-bit
   magnitudes. *)
C9_Exact ==
    ipc = "done" => ParseNumber(keyText) = IntValue(mag, neg)

\* the key's text has the digits the scalar renderer prints for the same integer
C9_SameDigits ==
    ipc = "done" => keyText = valText

=============================================================================
